---------------------------- MODULE Spec2Model ----------------------------
(***************************************************************************)
(* A model of app/models.py of appdotbuilder/siseroja: the SQLModel        *)
(* entities (table=True) and validation schemas (table=False) of the       *)
(* permit-management application, the field validation they declare, the   *)
(* uniqueness constraints of their tables, and the operations of the data  *)
(* layer that the specification describes on top of them (creation,        *)
(* update, permit workflow, public board, audit log).                      *)
(*                                                                         *)
(* The declarations (fields, bounds, defaults, unique columns, table=True) *)
(* are translated from app/models.py.  The file holds no handler: the      *)
(* operations are modelled from the specification, and say so where they   *)
(* are defined.                                                            *)
(***************************************************************************)
EXTENDS Integers, Sequences, FiniteSets, TLC

VARIABLES
    construction,   \* the last schema/entity construction: class, input, verdict, object
    db,             \* the database: table name -> set of rows
    clock,          \* datetime.utcnow(), as a logical clock
    last            \* the last data-layer operation and its outcome

vars == <<construction, db, clock, last>>

(***************************************************************************)
(* Bounds of the model.                                                    *)
(***************************************************************************)
\* mutating operations a behaviour performs after its initial state
MaxOps == 3
\* rows of student_permits
MaxPermits == 2

(***************************************************************************)
(* Values.  Python values are tagged by type; None is Null.  A str is kept *)
(* as its runs of equal characters (character, count), so that strings of  *)
(* 255 or 1001 characters are values like any other.                       *)
(***************************************************************************)
Null == [null |-> TRUE]
IntV(n) == [int |-> n]
BoolV(b) == [bool |-> b]
TokV(s) == [tok |-> s]
StrV(runs) == [str |-> runs]
DateV(d) == [date |-> d]
DateTimeV(t) == [datetime |-> t]
JsonV(j) == [json |-> j]

Run(c, n) == [c |-> c, n |-> n]
Text(c, n) == StrV(<<Run(c, n)>>)

\* a literal word, as one piece of as many characters
Word(w) == StrV(<<Run(w, Len(w))>>)

RECURSIVE RunsLen(_)
RunsLen(runs) ==
    IF runs = <<>> THEN 0 ELSE Head(runs).n + RunsLen(Tail(runs))

\* len(s)
StrLen(v) == RunsLen(v.str)

Max(S) == CHOOSE m \in S : \A n \in S : n <= m

(***************************************************************************)
(* The enumerations.                                                       *)
(***************************************************************************)
UserRole == {"owner", "admin", "staff"}
PermitStatus == {"pending", "approved", "rejected", "cancelled"}
PermitType == {"sick", "family_matter", "other"}
GradeLevel == {"7", "8", "9"}
Gender == {"L", "P"}

EnumValues(type) ==
    CASE type = "UserRole" -> UserRole
      [] type = "PermitStatus" -> PermitStatus
      [] type = "PermitType" -> PermitType
      [] type = "GradeLevel" -> GradeLevel
      [] type = "Gender" -> Gender
      [] OTHER -> {}

(***************************************************************************)
(* The pattern of User.email,                                              *)
(*     ^[a-zA-Z0-9_.+-]+@[a-zA-Z0-9-]+\.[a-zA-Z0-9-.]+$                    *)
(* as the automaton of the expression, run over the characters of the      *)
(* string.  States: 0 start, 1 in the local part, 2 after "@", 3 in the    *)
(* domain label, 4 after its ".", 5 in the rest (accepting), 6 dead.       *)
(***************************************************************************)
Alnum == {"a", "b", "Z", "0", "9"}
LocalChars == Alnum \cup {"_", ".", "+", "-"}
LabelChars == Alnum \cup {"-"}
RestChars == Alnum \cup {"-", "."}

EmailStep(s, c) ==
    CASE s = 0 -> IF c \in LocalChars THEN 1 ELSE 6
      [] s = 1 -> IF c \in LocalChars THEN 1 ELSE IF c = "@" THEN 2 ELSE 6
      [] s = 2 -> IF c \in LabelChars THEN 3 ELSE 6
      [] s = 3 -> IF c \in LabelChars THEN 3 ELSE IF c = "." THEN 4 ELSE 6
      [] s = 4 -> IF c \in RestChars THEN 5 ELSE 6
      [] s = 5 -> IF c \in RestChars THEN 5 ELSE 6
      [] OTHER -> 6

\* n characters c read from state s; a state that c maps to itself absorbs the rest
RECURSIVE EmailStepN(_, _, _)
EmailStepN(s, c, n) ==
    IF n = 0 \/ EmailStep(s, c) = s THEN s ELSE EmailStepN(EmailStep(s, c), c, n - 1)

RECURSIVE EmailRun(_, _)
EmailRun(s, runs) ==
    IF runs = <<>> THEN s
    ELSE EmailRun(EmailStepN(s, Head(runs).c, Head(runs).n), Tail(runs))

EmailRegex == "^[a-zA-Z0-9_.+-]+@[a-zA-Z0-9-]+\\.[a-zA-Z0-9-.]+$"

\* re.match(pattern, s)
Matches(pattern, v) ==
    IF pattern = EmailRegex THEN EmailRun(0, v.str) = 5 ELSE FALSE

(***************************************************************************)
(* Field declarations.  A field is  name: type = Field(...):                *)
(*   required     no default and no default_factory                        *)
(*   nullable     the annotation is Optional[...]                          *)
(*   default      Field(default=...)            (Null when there is none)  *)
(*   factory      Field(default_factory=datetime.utcnow)                   *)
(*   max_length, min_length, ge, le, regex      {} when not declared       *)
(*   unique, primary_key, foreign_key           the column's constraints   *)
(***************************************************************************)
Field(type) ==
    [type |-> type, required |-> TRUE, nullable |-> FALSE, default |-> Null,
     factory |-> FALSE, max_length |-> {}, min_length |-> {}, ge |-> {}, le |-> {},
     regex |-> {}, unique |-> FALSE, primary_key |-> FALSE, foreign_key |-> {}]

\* name: Optional[type] = Field(default=None)
OptionalField(type) ==
    [Field(type) EXCEPT !.required = FALSE, !.nullable = TRUE]

\* name: type = Field(default=d)
DefaultField(type, d) ==
    [Field(type) EXCEPT !.required = FALSE, !.default = d]

\* name: datetime = Field(default_factory=datetime.utcnow)
UtcNowField == [Field("datetime") EXCEPT !.required = FALSE, !.factory = TRUE]

\* id: Optional[int] = Field(default=None, primary_key=True)
PrimaryKey == [OptionalField("int") EXCEPT !.primary_key = TRUE]

MaxLength(f, n) == [f EXCEPT !.max_length = {n}]
MinLength(f, n) == [f EXCEPT !.min_length = {n}]
Between(f, lo, hi) == [f EXCEPT !.ge = {lo}, !.le = {hi}]
Unique(f) == [f EXCEPT !.unique = TRUE]
Regex(f, p) == [f EXCEPT !.regex = {p}]
ForeignKey(f, column) == [f EXCEPT !.foreign_key = {column}]

\* name: str = Field(max_length=n)
StrField(n) == MaxLength(Field("str"), n)
\* name: Optional[str] = Field(default=None, max_length=n)
OptStrField(n) == MaxLength(OptionalField("str"), n)

(***************************************************************************)
(* The persistent entities (table=True).                                   *)
(***************************************************************************)
User ==
    [name |-> "User", table |-> TRUE, tablename |-> "users", fields |->
     [id |-> PrimaryKey,
      email |-> Regex(Unique(StrField(255)), EmailRegex),
      password_hash |-> StrField(255),
      name |-> StrField(100),
      role |-> DefaultField("UserRole", TokV("staff")),
      is_active |-> DefaultField("bool", BoolV(TRUE)),
      created_at |-> UtcNowField,
      updated_at |-> UtcNowField]]

SchoolClass ==
    [name |-> "SchoolClass", table |-> TRUE, tablename |-> "school_classes", fields |->
     [id |-> PrimaryKey,
      name |-> Unique(StrField(10)),
      grade_level |-> Field("GradeLevel"),
      homeroom_teacher |-> OptStrField(100),
      academic_year |-> StrField(9),
      is_active |-> DefaultField("bool", BoolV(TRUE)),
      created_at |-> UtcNowField,
      updated_at |-> UtcNowField]]

\* Student.nis declared without unique=True
StudentNis_NotUnique == StrField(20)

\* nis: str = Field(unique=True, max_length=20)
StudentNis == Unique(StrField(20))

Student ==
    [name |-> "Student", table |-> TRUE, tablename |-> "students", fields |->
     [id |-> PrimaryKey,
      nis |-> StudentNis,
      nisn |-> OptStrField(20),
      name |-> StrField(100),
      gender |-> Field("Gender"),
      birth_place |-> OptStrField(100),
      birth_date |-> OptionalField("date"),
      address |-> OptStrField(500),
      phone |-> OptStrField(20),
      parent_name |-> OptStrField(100),
      parent_phone |-> OptStrField(20),
      class_id |-> ForeignKey(Field("int"), "school_classes.id"),
      is_active |-> DefaultField("bool", BoolV(TRUE)),
      created_at |-> UtcNowField,
      updated_at |-> UtcNowField]]

Employee ==
    [name |-> "Employee", table |-> TRUE, tablename |-> "employees", fields |->
     [id |-> PrimaryKey,
      nip |-> Unique(OptStrField(30)),
      name |-> StrField(100),
      gender |-> Field("Gender"),
      position |-> OptStrField(100),
      subject |-> OptStrField(100),
      birth_place |-> OptStrField(100),
      birth_date |-> OptionalField("date"),
      address |-> OptStrField(500),
      phone |-> OptStrField(20),
      email |-> OptStrField(255),
      hire_date |-> OptionalField("date"),
      is_active |-> DefaultField("bool", BoolV(TRUE)),
      created_at |-> UtcNowField,
      updated_at |-> UtcNowField]]

Alumni ==
    [name |-> "Alumni", table |-> TRUE, tablename |-> "alumni", fields |->
     [id |-> PrimaryKey,
      nis |-> StrField(20),
      nisn |-> OptStrField(20),
      name |-> StrField(100),
      gender |-> Field("Gender"),
      graduation_year |-> Between(Field("int"), 2000, 3000),
      last_class |-> StrField(10),
      birth_place |-> OptStrField(100),
      birth_date |-> OptionalField("date"),
      address |-> OptStrField(500),
      phone |-> OptStrField(20),
      parent_name |-> OptStrField(100),
      parent_phone |-> OptStrField(20),
      current_activity |-> OptStrField(200),
      created_at |-> UtcNowField,
      updated_at |-> UtcNowField]]

\* StudentPermit.status with another default
PermitStatusField_DefaultApproved == DefaultField("PermitStatus", TokV("approved"))

\* status: PermitStatus = Field(default=PermitStatus.PENDING)
PermitStatusField == DefaultField("PermitStatus", TokV("pending"))

\* StudentPermit.approved_at declared like created_at and updated_at
PermitApprovedAt_UtcNow == UtcNowField

\* approved_at: Optional[datetime] = Field(default=None)
PermitApprovedAt == OptionalField("datetime")

StudentPermit ==
    [name |-> "StudentPermit", table |-> TRUE, tablename |-> "student_permits", fields |->
     [id |-> PrimaryKey,
      student_id |-> ForeignKey(Field("int"), "students.id"),
      permit_type |-> Field("PermitType"),
      reason |-> StrField(500),
      start_date |-> Field("date"),
      end_date |-> Field("date"),
      status |-> PermitStatusField,
      notes |-> OptStrField(1000),
      approval_notes |-> OptStrField(500),
      created_by |-> ForeignKey(Field("int"), "users.id"),
      updated_by |-> ForeignKey(OptionalField("int"), "users.id"),
      created_at |-> UtcNowField,
      updated_at |-> UtcNowField,
      approved_at |-> PermitApprovedAt]]

SystemSettings ==
    [name |-> "SystemSettings", table |-> TRUE, tablename |-> "system_settings", fields |->
     [id |-> PrimaryKey,
      school_name |-> MaxLength(DefaultField("str", Text("S", 21)), 200),
      school_address |-> OptStrField(500),
      school_phone |-> OptStrField(20),
      school_email |-> OptStrField(255),
      current_academic_year |-> MaxLength(DefaultField("str", Text("2", 9)), 9),
      app_version |-> MaxLength(DefaultField("str", Text("1", 5)), 10),
      maintenance_mode |-> DefaultField("bool", BoolV(FALSE)),
      public_board_enabled |-> DefaultField("bool", BoolV(TRUE)),
      max_permit_days |-> Between(DefaultField("int", IntV(7)), 1, 30),
      auto_approve_sick_permits |-> DefaultField("bool", BoolV(FALSE)),
      notification_settings |-> DefaultField("json", JsonV({})),
      created_at |-> UtcNowField,
      updated_at |-> UtcNowField]]

\* AuditLog.old_values with an empty mapping for its default
AuditOldValues_DefaultEmpty == DefaultField("json", JsonV({}))

\* old_values: Optional[Dict[str, Any]] = Field(default=None, sa_column=Column(JSON))
AuditOldValues == OptionalField("json")

AuditLog ==
    [name |-> "AuditLog", table |-> TRUE, tablename |-> "audit_logs", fields |->
     [id |-> PrimaryKey,
      user_id |-> ForeignKey(OptionalField("int"), "users.id"),
      action |-> StrField(100),
      table_name |-> StrField(50),
      record_id |-> OptionalField("int"),
      old_values |-> AuditOldValues,
      new_values |-> OptionalField("json"),
      ip_address |-> OptStrField(45),
      user_agent |-> OptStrField(500),
      created_at |-> UtcNowField]]

(***************************************************************************)
(* The validation schemas (table=False).                                   *)
(***************************************************************************)
UserCreate ==
    [name |-> "UserCreate", table |-> FALSE, tablename |-> "", fields |->
     [email |-> StrField(255),
      password |-> MinLength(StrField(100), 6),
      name |-> StrField(100),
      role |-> DefaultField("UserRole", TokV("staff"))]]

UserUpdate ==
    [name |-> "UserUpdate", table |-> FALSE, tablename |-> "", fields |->
     [name |-> OptStrField(100),
      role |-> OptionalField("UserRole"),
      is_active |-> OptionalField("bool")]]

StudentCreate ==
    [name |-> "StudentCreate", table |-> FALSE, tablename |-> "", fields |->
     [nis |-> StrField(20),
      nisn |-> OptStrField(20),
      name |-> StrField(100),
      gender |-> Field("Gender"),
      birth_place |-> OptStrField(100),
      birth_date |-> OptionalField("date"),
      address |-> OptStrField(500),
      phone |-> OptStrField(20),
      parent_name |-> OptStrField(100),
      parent_phone |-> OptStrField(20),
      class_id |-> Field("int")]]

StudentUpdate ==
    [name |-> "StudentUpdate", table |-> FALSE, tablename |-> "", fields |->
     [nis |-> OptStrField(20),
      nisn |-> OptStrField(20),
      name |-> OptStrField(100),
      gender |-> OptionalField("Gender"),
      birth_place |-> OptStrField(100),
      birth_date |-> OptionalField("date"),
      address |-> OptStrField(500),
      phone |-> OptStrField(20),
      parent_name |-> OptStrField(100),
      parent_phone |-> OptStrField(20),
      class_id |-> OptionalField("int"),
      is_active |-> OptionalField("bool")]]

PermitCreate ==
    [name |-> "PermitCreate", table |-> FALSE, tablename |-> "", fields |->
     [student_id |-> Field("int"),
      permit_type |-> Field("PermitType"),
      reason |-> StrField(500),
      start_date |-> Field("date"),
      end_date |-> Field("date"),
      notes |-> OptStrField(1000)]]

PermitUpdate ==
    [name |-> "PermitUpdate", table |-> FALSE, tablename |-> "", fields |->
     [permit_type |-> OptionalField("PermitType"),
      reason |-> OptStrField(500),
      start_date |-> OptionalField("date"),
      end_date |-> OptionalField("date"),
      status |-> OptionalField("PermitStatus"),
      notes |-> OptStrField(1000),
      approval_notes |-> OptStrField(500)]]

SchoolClassCreate ==
    [name |-> "SchoolClassCreate", table |-> FALSE, tablename |-> "", fields |->
     [name |-> StrField(10),
      grade_level |-> Field("GradeLevel"),
      homeroom_teacher |-> OptStrField(100),
      academic_year |-> StrField(9)]]

SchoolClassUpdate ==
    [name |-> "SchoolClassUpdate", table |-> FALSE, tablename |-> "", fields |->
     [name |-> OptStrField(10),
      homeroom_teacher |-> OptStrField(100),
      academic_year |-> OptStrField(9),
      is_active |-> OptionalField("bool")]]

EmployeeCreate ==
    [name |-> "EmployeeCreate", table |-> FALSE, tablename |-> "", fields |->
     [nip |-> OptStrField(30),
      name |-> StrField(100),
      gender |-> Field("Gender"),
      position |-> OptStrField(100),
      subject |-> OptStrField(100),
      birth_place |-> OptStrField(100),
      birth_date |-> OptionalField("date"),
      address |-> OptStrField(500),
      phone |-> OptStrField(20),
      email |-> OptStrField(255),
      hire_date |-> OptionalField("date")]]

EmployeeUpdate ==
    [name |-> "EmployeeUpdate", table |-> FALSE, tablename |-> "", fields |->
     [nip |-> OptStrField(30),
      name |-> OptStrField(100),
      gender |-> OptionalField("Gender"),
      position |-> OptStrField(100),
      subject |-> OptStrField(100),
      birth_place |-> OptStrField(100),
      birth_date |-> OptionalField("date"),
      address |-> OptStrField(500),
      phone |-> OptStrField(20),
      email |-> OptStrField(255),
      hire_date |-> OptionalField("date"),
      is_active |-> OptionalField("bool")]]

AlumniCreate ==
    [name |-> "AlumniCreate", table |-> FALSE, tablename |-> "", fields |->
     [nis |-> StrField(20),
      nisn |-> OptStrField(20),
      name |-> StrField(100),
      gender |-> Field("Gender"),
      graduation_year |-> Between(Field("int"), 2000, 3000),
      last_class |-> StrField(10),
      birth_place |-> OptStrField(100),
      birth_date |-> OptionalField("date"),
      address |-> OptStrField(500),
      phone |-> OptStrField(20),
      parent_name |-> OptStrField(100),
      parent_phone |-> OptStrField(20),
      current_activity |-> OptStrField(200)]]

\* AlumniUpdate.graduation_year declared as AlumniCreate declares it
AlumniUpdateYear_Required == Between(Field("int"), 2000, 3000)

\* graduation_year: Optional[int] = Field(default=None, ge=2000, le=3000)
AlumniUpdateYear == Between(OptionalField("int"), 2000, 3000)

AlumniUpdate ==
    [name |-> "AlumniUpdate", table |-> FALSE, tablename |-> "", fields |->
     [nis |-> OptStrField(20),
      nisn |-> OptStrField(20),
      name |-> OptStrField(100),
      gender |-> OptionalField("Gender"),
      graduation_year |-> AlumniUpdateYear,
      last_class |-> OptStrField(10),
      birth_place |-> OptStrField(100),
      birth_date |-> OptionalField("date"),
      address |-> OptStrField(500),
      phone |-> OptStrField(20),
      parent_name |-> OptStrField(100),
      parent_phone |-> OptStrField(20),
      current_activity |-> OptStrField(200)]]

SystemSettingsUpdate ==
    [name |-> "SystemSettingsUpdate", table |-> FALSE, tablename |-> "", fields |->
     [school_name |-> OptStrField(200),
      school_address |-> OptStrField(500),
      school_phone |-> OptStrField(20),
      school_email |-> OptStrField(255),
      current_academic_year |-> OptStrField(9),
      maintenance_mode |-> OptionalField("bool"),
      public_board_enabled |-> OptionalField("bool"),
      max_permit_days |-> Between(OptionalField("int"), 1, 30),
      auto_approve_sick_permits |-> OptionalField("bool"),
      notification_settings |-> OptionalField("json")]]

\* PublicPermitInfo with the permit's notes among its fields
PublicPermitInfo_WithNotes ==
    [name |-> "PublicPermitInfo", table |-> FALSE, tablename |-> "", fields |->
     [student_name |-> Field("str"),
      class_name |-> Field("str"),
      permit_type |-> Field("str"),
      reason |-> Field("str"),
      start_date |-> Field("str"),
      end_date |-> Field("str"),
      notes |-> OptionalField("str")]]

\* the public board schema: every field a required str
PublicPermitInfo ==
    [name |-> "PublicPermitInfo", table |-> FALSE, tablename |-> "", fields |->
     [student_name |-> Field("str"),
      class_name |-> Field("str"),
      permit_type |-> Field("str"),
      reason |-> Field("str"),
      start_date |-> Field("str"),
      end_date |-> Field("str")]]

Entities ==
    {User, SchoolClass, Student, Employee, Alumni, StudentPermit, SystemSettings, AuditLog}

Schemas ==
    {UserCreate, UserUpdate, StudentCreate, StudentUpdate, PermitCreate, PermitUpdate,
     SchoolClassCreate, SchoolClassUpdate, EmployeeCreate, EmployeeUpdate,
     AlumniCreate, AlumniUpdate, SystemSettingsUpdate, PublicPermitInfo}

Classes == Entities \cup Schemas

FieldNames(cls) == DOMAIN cls.fields

(***************************************************************************)
(* Validation of one value against a field declaration.                    *)
(***************************************************************************)
TypeOk(type, v) ==
    CASE type = "str" -> "str" \in DOMAIN v
      [] type = "int" -> "int" \in DOMAIN v
      [] type = "bool" -> "bool" \in DOMAIN v
      [] type = "date" -> "date" \in DOMAIN v
      [] type = "datetime" -> "datetime" \in DOMAIN v
      [] type = "json" -> "json" \in DOMAIN v
      [] OTHER -> "tok" \in DOMAIN v /\ v.tok \in EnumValues(type)

\* the constraints Field(...) declares: max_length, min_length, ge, le, regex
BoundsOk(f, v) ==
    /\ f.type = "str" =>
         /\ \A m \in f.max_length : StrLen(v) <= m
         /\ \A m \in f.min_length : StrLen(v) >= m
         /\ \A p \in f.regex : Matches(p, v)
    /\ f.type = "int" =>
         /\ \A lo \in f.ge : v.int >= lo
         /\ \A hi \in f.le : v.int <= hi

FieldOk(f, v) ==
    IF v = Null THEN f.nullable
    ELSE TypeOk(f.type, v) /\ BoundsOk(f, v)

\* the fields of cls that fail on input (a function from the names given to values):
\* a field given is checked, a field not given must not be required, a name that
\* is no field of cls is ignored
Errors(cls, input) ==
    {f \in FieldNames(cls) :
        IF f \in DOMAIN input THEN ~FieldOk(cls.fields[f], input[f])
        ELSE cls.fields[f].required}

\* the object built: the values given, the defaults for the rest
Object(cls, input, now) ==
    [f \in FieldNames(cls) |->
        IF f \in DOMAIN input THEN input[f]
        ELSE IF cls.fields[f].factory THEN DateTimeV(now)
        ELSE cls.fields[f].default]

\* cls(**input).  SQLModel validates the input of a table=False class and raises
\* ValidationError on the first construction that has errors; a table=True class is
\* built without validation (SQLModel.__init__ raises only for non-table models), so
\* the constraints of its fields are column declarations and nothing more.
ValidationErrors(cls, input) ==
    IF cls.table THEN {} ELSE Errors(cls, input)

Construct(cls, input, now) ==
    LET errs == ValidationErrors(cls, input) IN
    [cls |-> cls.name, given |-> input, done |-> TRUE, errors |-> errs, ok |-> errs = {},
     obj |-> IF errs = {} THEN Object(cls, input, now) ELSE Null]

\* a construction called and not yet evaluated
Called(cls, input) ==
    [cls |-> cls.name, given |-> input, done |-> FALSE, errors |-> {}, ok |-> FALSE,
     obj |-> Null]

NotConstructed ==
    [cls |-> "", given |-> <<>>, done |-> FALSE, errors |-> {}, ok |-> FALSE, obj |-> Null]

(***************************************************************************)
(* The inputs constructions are tried on: per field, the values at and     *)
(* just outside each declared bound, None, and for strings a few e-mail    *)
(* shaped samples; per class, a valid input with one field varied, removed *)
(* or added.                                                               *)
(***************************************************************************)
\* the days of the month dates are taken from (the 8th and the 10th of March 2024)
Days == {8, 10}

EmailSamples ==
    {StrV(<<Run("a", 1), Run("@", 1), Run("b", 1), Run(".", 1), Run("a", 1)>>),
     StrV(<<Run("a", 1), Run(".", 1), Run("b", 1), Run("@", 1), Run("Z", 2), Run("-", 1),
            Run("9", 1), Run(".", 2), Run("a", 1)>>),
     StrV(<<Run("a", 1), Run("@", 1), Run("b", 1)>>),
     StrV(<<Run("a", 1), Run("@", 2), Run("b", 1), Run(".", 1), Run("a", 1)>>),
     StrV(<<Run("a", 1), Run(" ", 1), Run("@", 1), Run("b", 1), Run(".", 1), Run("a", 1)>>),
     StrV(<<Run("@", 1), Run("b", 1), Run(".", 1), Run("a", 1)>>)}

Samples(f) ==
    {Null} \cup
    CASE f.type = "str" ->
           {Text("a", 7)} \cup EmailSamples
           \cup UNION {{Text("a", m), Text("a", m + 1)} : m \in f.max_length}
           \cup UNION {{Text("a", m), Text("a", m - 1)} : m \in f.min_length}
      [] f.type = "int" ->
           {IntV(1)} \cup UNION {{IntV(lo - 1), IntV(lo)} : lo \in f.ge}
           \cup UNION {{IntV(hi), IntV(hi + 1)} : hi \in f.le}
      [] f.type = "bool" -> {BoolV(TRUE), BoolV(FALSE)}
      [] f.type = "date" -> {DateV(d) : d \in Days}
      [] f.type = "datetime" -> {DateTimeV(0)}
      [] f.type = "json" -> {JsonV({})}
      [] OTHER -> {TokV(t) : t \in EnumValues(f.type)} \cup {TokV("bogus")}

Restrict(fn, S) == [x \in S |-> fn[x]]

Extend(fn, k, v) == [x \in DOMAIN fn \cup {k} |-> IF x = k THEN v ELSE fn[x]]

ValidInput(cls) ==
    [f \in FieldNames(cls) |->
        CHOOSE v \in Samples(cls.fields[f]) : v # Null /\ FieldOk(cls.fields[f], v)]

Inputs(cls) ==
    {ValidInput(cls), <<>>}
    \cup {[ValidInput(cls) EXCEPT ![f] = v] :
            <<f, v>> \in UNION {{<<g, w>> : w \in Samples(cls.fields[g])} : g \in FieldNames(cls)}}
    \cup {Restrict(ValidInput(cls), FieldNames(cls) \ {f}) : f \in FieldNames(cls)}
    \cup {Extend(ValidInput(cls), "status", TokV("approved"))}

(***************************************************************************)
(* The state before anything is constructed or stored.                     *)
(***************************************************************************)
Tables == {e.tablename : e \in Entities}

EmptyDb == [t \in Tables |-> {}]

NoOperation == [op |-> "", result |-> ""]

ClassNamed(name) == CHOOSE cls \in Classes : cls.name = name

\* cls(**input), for the class and the input the behaviour started with
ConstructClass ==
    /\ construction.cls # ""
    /\ ~construction.done
    /\ construction' = Construct(ClassNamed(construction.cls), construction.given, clock)
    /\ UNCHANGED <<db, clock, last>>

\* any class of the module, any input
InitSchema ==
    /\ \E cls \in Classes : \E input \in Inputs(cls) : construction = Called(cls, input)
    /\ db = EmptyDb
    /\ clock = 0
    /\ last = NoOperation

NextSchema == ConstructClass

SpecSchema == InitSchema /\ [][NextSchema]_vars

(***************************************************************************)
(* The tables.  A row is an object of its entity; what the database        *)
(* enforces on a flush is what the columns declare: the primary key, NOT   *)
(* NULL for a field that is not Optional, unique=True, foreign_key=...     *)
(***************************************************************************)
Rows(d, cls) == d[cls.tablename]

\* the autoincremented primary key
NextId(rows) == IF rows = {} THEN 1 ELSE Max({r.id.int : r \in rows}) + 1

RowWithId(rows, id) == CHOOSE r \in rows : r.id = id

HasRow(rows, id) == \E r \in rows : r.id = id

\* unique=True: no other row holds the same non-NULL value
UniqueViolation(cls, rows, row) ==
    \E f \in FieldNames(cls) :
        /\ cls.fields[f].unique
        /\ row[f] # Null
        /\ \E r \in rows : r.id # row.id /\ r[f] = row[f]

\* a column whose field is not Optional holds no NULL
NullViolation(cls, row) ==
    \E f \in FieldNames(cls) :
        ~cls.fields[f].nullable /\ ~cls.fields[f].primary_key /\ row[f] = Null

ReferencedTable(column) ==
    CASE column = "school_classes.id" -> "school_classes"
      [] column = "students.id" -> "students"
      [] column = "users.id" -> "users"

\* foreign_key="t.id": a non-NULL value is the id of a row of t
ForeignKeyViolation(cls, d, row) ==
    \E f \in FieldNames(cls) : \E column \in cls.fields[f].foreign_key :
        row[f] # Null /\ ~HasRow(d[ReferencedTable(column)], row[f])

\* the outcome of flushing row (a new row, or the new value of the row of its id)
Flush(cls, d, row) ==
    IF NullViolation(cls, row) THEN "integrity_error"
    ELSE IF UniqueViolation(cls, Rows(d, cls), row) THEN "uniqueness_conflict"
    ELSE IF ForeignKeyViolation(cls, d, row) THEN "referential_error"
    ELSE "ok"

\* d with row stored in place of the row of its id, if any
Store(cls, d, row) ==
    [d EXCEPT ![cls.tablename] = {r \in @ : r.id # row.id} \cup {row}]

Remove(cls, d, id) ==
    [d EXCEPT ![cls.tablename] = {r \in @ : r.id # id}]

(***************************************************************************)
(* The operations of the data layer.  app/models.py declares the schemas   *)
(* and holds no handler; the operations below follow the specification:    *)
(* an operation validates its input with the input schema, builds or       *)
(* changes the row, flushes it, writes one audit row, and is atomic.  A    *)
(* field an update does not give is left unchanged.                        *)
(***************************************************************************)
Merge(f, g) == [x \in DOMAIN f \cup DOMAIN g |-> IF x \in DOMAIN g THEN g[x] ELSE f[x]]

\* what `last` records of an operation
Last(op, actor, given, id, result) ==
    [op |-> op, actor |-> actor, given |-> given, id |-> id, result |-> result]

\* an operation that failed: nothing but `last` changes
Failed(w, op, actor, given, id, result) ==
    [db |-> w.db, clock |-> w.clock, last |-> Last(op, actor, given, id, result)]

\* the audit row of one mutation: the fields that have nothing to record (no actor,
\* no old or new snapshot) are not given and keep the defaults AuditLog declares
AuditRow(d, now, actor, action, cls, id, old, new) ==
    LET always == [action |-> Word(action), table_name |-> Word(cls.tablename),
                   record_id |-> id]
        given == Merge(Merge(always,
                     IF actor = Null THEN <<>> ELSE [user_id |-> actor]),
                     Merge(IF old = Null THEN <<>> ELSE [old_values |-> old],
                           IF new = Null THEN <<>> ELSE [new_values |-> new]))
    IN  [Object(AuditLog, given, now) EXCEPT !.id = IntV(NextId(Rows(d, AuditLog)))]

Log(d, now, actor, action, cls, id, old, new) ==
    Store(AuditLog, d, AuditRow(d, now, actor, action, cls, id, old, new))

\* create: schema(**input), then cls(**its fields, **extra), flushed and audited
CreateRow(w, op, schema, cls, input, extra, actor) ==
    LET c == Construct(schema, input, w.clock)
        now == w.clock + 1
        id == IntV(NextId(Rows(w.db, cls)))
    IN  IF ~c.ok THEN Failed(w, op, actor, input, Null, "validation_error")
        ELSE
        LET values == Merge(Restrict(c.obj, FieldNames(schema) \cap FieldNames(cls)), extra)
            row == [Construct(cls, values, now).obj EXCEPT !.id = id]
            outcome == Flush(cls, w.db, row)
        IN  IF outcome # "ok" THEN Failed(w, op, actor, input, Null, outcome)
            ELSE [db |-> Log(Store(cls, w.db, row), now, actor, "CREATE", cls, id,
                             Null, JsonV(row)),
                  clock |-> now,
                  last |-> Last(op, actor, input, id, "ok")]

\* update: schema(**input), then the fields given are set on the row of id
\* (conflict: the operation's own precondition fails on the row)
UpdateRow(w, op, schema, cls, id, input, extra, actor, conflict) ==
    LET c == Construct(schema, input, w.clock)
        now == w.clock + 1
    IN  IF ~c.ok THEN Failed(w, op, actor, input, id, "validation_error")
        ELSE IF ~HasRow(Rows(w.db, cls), id) THEN Failed(w, op, actor, input, id, "not_found")
        ELSE IF conflict THEN Failed(w, op, actor, input, id, "state_conflict")
        ELSE
        LET old == RowWithId(Rows(w.db, cls), id)
            set == Restrict(c.obj, DOMAIN input \cap FieldNames(schema) \cap FieldNames(cls))
            row == Merge(Merge(old, set), Merge(extra, [updated_at |-> DateTimeV(now)]))
            outcome == Flush(cls, w.db, row)
        IN  IF outcome # "ok" THEN Failed(w, op, actor, input, id, outcome)
            ELSE [db |-> Log(Store(cls, w.db, row), now, actor, "UPDATE", cls, id,
                             JsonV(old), JsonV(row)),
                  clock |-> now,
                  last |-> Last(op, actor, input, id, "ok")]

\* delete of the row of id
DeleteRow(w, op, cls, id, actor) ==
    LET now == w.clock + 1 IN
    IF ~HasRow(Rows(w.db, cls), id) THEN Failed(w, op, actor, <<>>, id, "not_found")
    ELSE [db |-> Log(Remove(cls, w.db, id), now, actor, "DELETE", cls, id,
                     JsonV(RowWithId(Rows(w.db, cls), id)), Null),
          clock |-> now,
          last |-> Last(op, actor, <<>>, id, "ok")]

\* the stored credential: a hash of the password, 60 characters
PasswordHash(password) == Text("$", 60)

CreateUserOp(w, input, actor) ==
    CreateRow(w, "create_user", UserCreate, User, input,
              IF "password" \in DOMAIN input
              THEN [password_hash |-> PasswordHash(input.password)] ELSE <<>>,
              actor)

CreateSchoolClassOp(w, input, actor) ==
    CreateRow(w, "create_school_class", SchoolClassCreate, SchoolClass, input, <<>>, actor)

CreateStudentOp(w, input, actor) ==
    CreateRow(w, "create_student", StudentCreate, Student, input, <<>>, actor)

CreateAlumniOp(w, input, actor) ==
    CreateRow(w, "create_alumni", AlumniCreate, Alumni, input, <<>>, actor)

UpdateStudentOp(w, id, input, actor) ==
    UpdateRow(w, "update_student", StudentUpdate, Student, id, input, <<>>, actor, FALSE)

DeleteAlumniOp(w, id, actor) ==
    DeleteRow(w, "delete_alumni", Alumni, id, actor)

(***************************************************************************)
(* The registry: users, classes, students and alumni, from an empty        *)
(* database.                                                               *)
(***************************************************************************)
World == [db |-> db, clock |-> clock]

\* the state after operation outcome r, while the clock stays within limit
DoWithin(r, limit) ==
    /\ r.clock <= limit
    /\ db' = r.db
    /\ clock' = r.clock
    /\ last' = r.last
    /\ UNCHANGED construction

Do(r) == DoWithin(r, MaxOps)

\* who acts: a user of the database, or nobody (a system action)
Actors == {Null} \cup {r.id : r \in db["users"]}

GoodEmail == StrV(<<Run("a", 1), Run("@", 1), Run("b", 1), Run(".", 1), Run("a", 1)>>)
BadEmail == StrV(<<Run("a", 1), Run("@", 1), Run("b", 1)>>)
Nis1 == Text("1", 4)
Nis2 == Text("2", 4)
SomeName == Text("a", 7)

UserInputs ==
    {[email |-> e, password |-> Text("p", n), name |-> SomeName] :
        <<e, n>> \in {<<GoodEmail, 6>>, <<BadEmail, 6>>, <<GoodEmail, 5>>}}

SchoolClassInputs ==
    {[name |-> Text("7", n), grade_level |-> TokV("7"), academic_year |-> Word("2024/2025")] :
        n \in {2, 11}}

StudentInputs ==
    {[nis |-> n, name |-> SomeName, gender |-> TokV("L"), class_id |-> IntV(1)] :
        n \in {Nis1, Nis2}}

AlumniInputs ==
    {[nis |-> n, name |-> SomeName, gender |-> TokV("P"), graduation_year |-> IntV(y),
      last_class |-> Word("9A")] :
        <<n, y>> \in {<<Nis1, 2024>>, <<Nis2, 2024>>, <<Nis1, 1999>>}}

StudentUpdateInputs ==
    {[nis |-> Nis1], [nis |-> Nis2], [is_active |-> BoolV(FALSE)],
     [name |-> Text("a", 101)]}

CreateUser ==
    \E input \in UserInputs : \E actor \in Actors :
        Do(CreateUserOp(World, input, actor))

CreateSchoolClass ==
    \E input \in SchoolClassInputs : \E actor \in Actors :
        Do(CreateSchoolClassOp(World, input, actor))

CreateStudent ==
    \E input \in StudentInputs : \E actor \in Actors :
        Do(CreateStudentOp(World, input, actor))

CreateAlumni ==
    \E input \in AlumniInputs : \E actor \in Actors :
        Do(CreateAlumniOp(World, input, actor))

UpdateStudent ==
    \E row \in db["students"] : \E input \in StudentUpdateInputs : \E actor \in Actors :
        Do(UpdateStudentOp(World, row.id, input, actor))

DeleteAlumni ==
    \E row \in db["alumni"] : \E actor \in Actors :
        Do(DeleteAlumniOp(World, row.id, actor))

InitRegistry ==
    /\ construction = NotConstructed
    /\ db = EmptyDb
    /\ clock = 0
    /\ last = NoOperation

NextRegistry ==
    \/ CreateUser
    \/ CreateSchoolClass
    \/ CreateStudent
    \/ CreateAlumni
    \/ UpdateStudent
    \/ DeleteAlumni

SpecRegistry == InitRegistry /\ [][NextRegistry]_vars

(***************************************************************************)
(* The permit workflow, the settings and the public board, from a database *)
(* that holds one user, one class, one student and the settings row.       *)
(***************************************************************************)
Permits(d) == d["student_permits"]

\* the singleton settings row
Settings(d) == CHOOSE r \in d["system_settings"] : TRUE

\* the rule evaluated at creation: with auto_approve_sick_permits set, a sick
\* permit is created approved, with its approval time and approver recorded
AutoApproved(d, input) ==
    /\ Settings(d).auto_approve_sick_permits = BoolV(TRUE)
    /\ "permit_type" \in DOMAIN input
    /\ input.permit_type = TokV("sick")

CreatePermitOp(w, input, actor) ==
    CreateRow(w, "create_permit", PermitCreate, StudentPermit, input,
              Merge([created_by |-> actor],
                    IF AutoApproved(w.db, input)
                    THEN [status |-> TokV("approved"),
                          approved_at |-> DateTimeV(w.clock + 1),
                          updated_by |-> actor]
                    ELSE <<>>),
              actor)

\* a PermitUpdate that gives a status asks for a transition
AsksTransition(input) == "status" \in DOMAIN input /\ input.status # Null

\* a conflict found for approved permits only
TransitionConflict_ApprovedOnly(d, id, input) ==
    /\ AsksTransition(input)
    /\ HasRow(Permits(d), id)
    /\ RowWithId(Permits(d), id).status = TokV("approved")

\* no transition is defined out of approved, rejected or cancelled
TransitionConflict(d, id, input) ==
    /\ AsksTransition(input)
    /\ HasRow(Permits(d), id)
    /\ RowWithId(Permits(d), id).status # TokV("pending")

\* the update records who made it, and an approval records when
UpdatePermitOp(w, id, input, actor) ==
    UpdateRow(w, "update_permit", PermitUpdate, StudentPermit, id, input,
              Merge([updated_by |-> actor],
                    IF AsksTransition(input) /\ input.status = TokV("approved")
                    THEN [approved_at |-> DateTimeV(w.clock + 1)]
                    ELSE <<>>),
              actor, TransitionConflict(w.db, id, input))

\* the settings row, SystemSettings() with the defaults it declares, created by the
\* system
CreateSettingsOp(w) ==
    LET now == w.clock + 1
        id == IntV(NextId(Rows(w.db, SystemSettings)))
        row == [Construct(SystemSettings, <<>>, now).obj EXCEPT !.id = id]
    IN  [db |-> Log(Store(SystemSettings, w.db, row), now, Null, "CREATE", SystemSettings,
                    id, Null, JsonV(row)),
         clock |-> now,
         last |-> Last("create_settings", Null, <<>>, id, "ok")]

UpdateSettingsOp(w, input, actor) ==
    UpdateRow(w, "update_settings", SystemSettingsUpdate, SystemSettings,
              Settings(w.db).id, input, <<>>, actor, FALSE)

\* member.value: the text of an enum member
EnumStr(v) == Word(v.tok)

\* date.isoformat(): YYYY-MM-DD (the dates of the model are days of March 2024)
IsoFormat(v) ==
    Word("2024-03-" \o (IF v.date < 10 THEN "0" ELSE "") \o ToString(v.date))

\* the value of field f of the public entry of permit p of student st of class cl
PublicValue(f, p, st, cl) ==
    CASE f = "student_name" -> st.name
      [] f = "class_name" -> cl.name
      [] f = "permit_type" -> EnumStr(p.permit_type)
      [] f = "start_date" -> IsoFormat(p.start_date)
      [] f = "end_date" -> IsoFormat(p.end_date)
      [] OTHER -> p[f]

PublicEntry(d, p) ==
    LET st == RowWithId(d["students"], p.student_id)
        cl == RowWithId(d["school_classes"], st.class_id)
    IN  Construct(PublicPermitInfo,
                  [f \in FieldNames(PublicPermitInfo) |-> PublicValue(f, p, st, cl)], 0).obj

\* the permits the public board shows
OnBoard(d) == {p \in Permits(d) : p.status = TokV("approved")}

RECURSIVE EntriesOf(_, _)
EntriesOf(d, ps) ==
    IF ps = {} THEN <<>>
    ELSE LET p == CHOOSE q \in ps : \A r \in ps : q.id.int <= r.id.int
         IN  <<PublicEntry(d, p)>> \o EntriesOf(d, ps \ {p})

\* the public listing: the entries of the approved permits, in the order of their ids
PublicBoard(d) == EntriesOf(d, OnBoard(d))

PublicBoardOp(w) ==
    [db |-> w.db, clock |-> w.clock,
     last |-> [op |-> "public_board", actor |-> Null, given |-> <<>>, id |-> Null,
               result |-> "ok", rows |-> PublicBoard(w.db)]]

Seeded ==
    LET w0 == [db |-> EmptyDb, clock |-> 0]
        w1 == CreateSettingsOp(w0)
        w2 == CreateUserOp(w1, [email |-> GoodEmail, password |-> Text("p", 6),
                                name |-> SomeName, role |-> TokV("admin")], Null)
        w3 == CreateSchoolClassOp(w2, [name |-> Word("7A"), grade_level |-> TokV("7"),
                                       academic_year |-> Word("2024/2025")], IntV(1))
    IN  CreateStudentOp(w3, [nis |-> Nis1, name |-> SomeName, gender |-> TokV("L"),
                             class_id |-> IntV(1), phone |-> Text("0", 12),
                             parent_phone |-> Text("0", 11)], IntV(1))

DoPermit(r) == DoWithin(r, Seeded.clock + MaxOps)

PermitInput(type, start, end) ==
    [student_id |-> IntV(1), permit_type |-> TokV(type), reason |-> Text("r", 3),
     start_date |-> DateV(start), end_date |-> DateV(end)]

PermitInputs ==
    {PermitInput("sick", 8, 8), PermitInput("other", 8, 10), PermitInput("other", 10, 8),
     Extend(PermitInput("family_matter", 8, 8), "notes", Text("n", 4)),
     Extend(PermitInput("other", 8, 8), "status", TokV("approved")),
     [PermitInput("sick", 8, 8) EXCEPT !.reason = Text("r", 501)]}

PermitUpdateInputs ==
    {[status |-> TokV(x)] : x \in {"pending", "rejected", "cancelled"}}
    \cup {[status |-> TokV("approved"), approval_notes |-> Text("k", 2)],
          [start_date |-> DateV(10)],
          [reason |-> Text("r", 501)]}

SettingsInputs ==
    {[auto_approve_sick_permits |-> BoolV(TRUE)],
     [max_permit_days |-> IntV(31)]}

\* who files and processes permits: the users
Staff == {r.id : r \in db["users"]}

CreatePermit ==
    /\ Cardinality(Permits(db)) < MaxPermits
    /\ \E input \in PermitInputs : \E actor \in Staff :
           DoPermit(CreatePermitOp(World, input, actor))

UpdatePermit ==
    \E id \in {IntV(i) : i \in 1..MaxPermits} : \E input \in PermitUpdateInputs :
        \E actor \in Staff :
            DoPermit(UpdatePermitOp(World, id, input, actor))

UpdateSettings ==
    \E input \in SettingsInputs : \E actor \in Staff :
        DoPermit(UpdateSettingsOp(World, input, actor))

ShowPublicBoard == DoPermit(PublicBoardOp(World))

InitPermit ==
    /\ construction = NotConstructed
    /\ db = Seeded.db
    /\ clock = Seeded.clock
    /\ last = NoOperation

NextPermit ==
    \/ CreatePermit
    \/ UpdatePermit
    \/ UpdateSettings
    \/ ShowPublicBoard

Spec == InitPermit /\ [][NextPermit]_vars

(***************************************************************************)
(* Properties of the permit workflow (Spec).                               *)
(***************************************************************************)
Pending == TokV("pending")
Approved == TokV("approved")
Terminal == {TokV("approved"), TokV("rejected"), TokV("cancelled")}

\* C1: a status transition asked of a permit that is approved, rejected or
\* cancelled (a valid PermitUpdate that gives a status) fails with a state-conflict
\* error and leaves the database unchanged; in every step, a permit whose status
\* changes was pending.
C1_TerminalPermitsRefuseTransitions ==
    [][/\ \A p \in Permits(db) : \A q \in Permits(db)' :
              (q.id = p.id /\ q.status # p.status) => p.status = Pending
       /\ ( /\ last'.op = "update_permit"
            /\ AsksTransition(last'.given)
            /\ Errors(PermitUpdate, last'.given) = {}
            /\ \E p \in Permits(db) : p.id = last'.id /\ p.status \in Terminal )
          => (last'.result = "state_conflict" /\ db' = db)]_vars

\* C1 witness: a rejection asked of an approved permit has ended in a state conflict
C1_ConflictReached ==
    /\ last.op = "update_permit"
    /\ last.result = "state_conflict"
    /\ last.given.status = TokV("rejected")
    /\ \E p \in Permits(db) : p.id = last.id /\ p.status = Approved

C3_DateRangeValidated ==
    /\ \A p \in Permits(db) : p.start_date.date <= p.end_date.date
    /\ ( /\ last.op = "create_permit"
         /\ last.given.end_date.date < last.given.start_date.date )
       => last.result = "validation_error"

\* what two databases with the same public board must share: the approved permits
\* with their student, type, reason and dates, the students' names and classes, the
\* classes' names
Blank(row, keep) == [f \in DOMAIN row |-> IF f \in keep THEN row[f] ELSE Null]

Redacted(d) ==
    [t \in DOMAIN d |->
        CASE t = "student_permits" ->
               {Blank(p, {"id", "student_id", "permit_type", "reason", "start_date",
                          "end_date", "status"}) : p \in {q \in d[t] : q.status = Approved}}
          [] t = "students" -> {Blank(r, {"id", "name", "class_id"}) : r \in d[t]}
          [] t = "school_classes" -> {Blank(r, {"id", "name"}) : r \in d[t]}
          [] OTHER -> {}]

\* C4: the public board has one entry per approved permit and none for any other,
\* each entry has exactly the fields student_name, class_name, permit_type, reason,
\* start_date, end_date, and the board is the board of the redacted database: it
\* does not depend on the permits that are not approved, nor on any field besides
\* the approved permits' type, reason and dates, the student's name and the class's name.
C4_PublicBoardShowsApprovedPublicFieldsOnly ==
    last.op = "public_board" =>
        /\ last.rows = PublicBoard(Redacted(db))
        /\ Len(last.rows) = Cardinality({p \in Permits(db) : p.status = Approved})
        /\ \A i \in DOMAIN last.rows :
              DOMAIN last.rows[i] = {"student_name", "class_name", "permit_type", "reason",
                                     "start_date", "end_date"}

\* C4 witness: the board shown with one approved permit on it, while another permit
\* with internal notes is pending and the student has a phone number on record
C4_BoardShownBesideHiddenData ==
    /\ last.op = "public_board"
    /\ Len(last.rows) = 1
    /\ \E p \in Permits(db) : p.status = Pending /\ p.notes # Null
    /\ \E r \in db["students"] : r.phone # Null

\* C8: a permit just created is pending, or it is approved and it is a sick permit
\* and auto_approve_sick_permits is set; a status given with the PermitCreate input
\* changes nothing.
C8_NewPermitsStartPending ==
    (last.op = "create_permit" /\ last.result = "ok") =>
        LET p == RowWithId(Permits(db), last.id) IN
        \/ p.status = Pending
        \/ /\ p.status = Approved
           /\ p.permit_type = TokV("sick")
           /\ Settings(db).auto_approve_sick_permits = BoolV(TRUE)

\* C8 witness: a permit created with status approved in its input is pending, beside
\* a sick permit that was created approved
C8_StatusInInputIgnored ==
    /\ last.op = "create_permit"
    /\ last.result = "ok"
    /\ "status" \in DOMAIN last.given
    /\ RowWithId(Permits(db), last.id).status = Pending
    /\ \E p \in Permits(db) : p.status = Approved /\ p.created_at = p.approved_at

(***************************************************************************)
(* Properties of the registry (SpecRegistry).                              *)
(***************************************************************************)
NoTwoShare(rows, f) ==
    \A r1, r2 \in rows : (r1.id # r2.id /\ r1[f] # Null) => r1[f] # r2[f]

\* the creations into a table with a unique column: operation, schema, table, column
UniqueCreations ==
    {<<"create_student", StudentCreate, "students", "nis">>,
     <<"create_user", UserCreate, "users", "email">>,
     <<"create_school_class", SchoolClassCreate, "school_classes", "name">>}

\* C5: after every step no two students share a nis, no two users an email and no
\* two classes a name; a valid creation whose nis (email, name) is already stored
\* ends in a uniqueness conflict and leaves the database unchanged; a valid creation
\* of an alumni row succeeds and adds the row whatever nis the students and the
\* alumni already hold.
C5_UniqueColumnsStayUnique ==
    [][/\ NoTwoShare(db'["students"], "nis")
       /\ NoTwoShare(db'["users"], "email")
       /\ NoTwoShare(db'["school_classes"], "name")
       /\ \A u \in UniqueCreations :
             ( /\ last'.op = u[1]
               /\ Errors(u[2], last'.given) = {}
               /\ \E r \in db[u[3]] : r[u[4]] = last'.given[u[4]] )
             => (last'.result = "uniqueness_conflict" /\ db' = db)
       /\ (last'.op = "create_alumni" /\ Errors(AlumniCreate, last'.given) = {})
             => /\ last'.result = "ok"
                /\ \E row \in db'["alumni"] :
                      /\ row.id = last'.id
                      /\ row.nis = last'.given.nis
                      /\ row \notin db["alumni"]
                      /\ db'["alumni"] = db["alumni"] \cup {row}]_vars

\* C5 witness: a student and an alumni row hold the same nis, and the creation of a
\* second student with that nis has ended in a uniqueness conflict
C5_DuplicateNisRefused ==
    /\ last.op = "create_student"
    /\ last.result = "uniqueness_conflict"
    /\ \E st \in db["students"] : \E al \in db["alumni"] :
          st.nis = last.given.nis /\ al.nis = st.nis

AuditRows(d) == d["audit_logs"]

\* C9: in every step the audit rows already stored stay as they are; a step that
\* changes another table, and every operation that succeeds, adds exactly one audit
\* row, any other step adds none; the row added names the record and the actor
\* (NULL for a system action), has old_values NULL exactly when the operation is a
\* creation and new_values NULL exactly when it is a deletion.
C9_AuditLogAppendOnlyAndComplete ==
    [][LET added == AuditRows(db') \ AuditRows(db)
           mutated == \E t \in Tables \ {"audit_logs"} : db'[t] # db[t]
       IN  /\ AuditRows(db) \subseteq AuditRows(db')
           /\ Cardinality(added) = IF mutated THEN 1 ELSE 0
           /\ (last' # last /\ last'.result = "ok") => mutated
           /\ \A a \in added :
                 /\ last'.result = "ok"
                 /\ a.record_id = last'.id
                 /\ a.user_id = last'.actor
                 /\ a.created_at = DateTimeV(clock')
                 /\ (a.old_values = Null) <=>
                        (last'.op \in {"create_user", "create_school_class",
                                       "create_student", "create_alumni"})
                 /\ (a.new_values = Null) <=> (last'.op = "delete_alumni")]_vars

\* C9 witness: an alumni row created by the system and then deleted: two audit rows,
\* one without old values and without actor, one without new values
C9_CreatedThenDeleted ==
    /\ last.op = "delete_alumni"
    /\ last.result = "ok"
    /\ \E a, b \in AuditRows(db) :
          /\ a.old_values = Null /\ a.new_values # Null /\ a.user_id = Null
          /\ b.new_values = Null /\ b.old_values = a.new_values

(***************************************************************************)
(* Properties of the schemas (SpecSchema).                                 *)
(***************************************************************************)
\* the entities that have a Create and an Update schema: Create, Update, entity
SchemaPairs ==
    {<<UserCreate, UserUpdate, User>>,
     <<StudentCreate, StudentUpdate, Student>>,
     <<PermitCreate, PermitUpdate, StudentPermit>>,
     <<SchoolClassCreate, SchoolClassUpdate, SchoolClass>>,
     <<EmployeeCreate, EmployeeUpdate, Employee>>,
     <<AlumniCreate, AlumniUpdate, Alumni>>}

\* max_length, min_length, ge and le of field f hold of value v
WithinBounds(f, v) ==
    /\ f.type = "str" =>
         /\ \A m \in f.max_length : StrLen(v) <= m
         /\ \A m \in f.min_length : StrLen(v) >= m
    /\ f.type = "int" =>
         /\ \A lo \in f.ge : v.int >= lo
         /\ \A hi \in f.le : v.int <= hi

\* C6: a construction, of an entity or of an input schema, that gives a field a
\* value outside the field's declared length or range fails, and a construction
\* whose input has no error succeeds.
C6_OutOfBoundsNeverAccepted ==
    construction.done =>
        LET cls == ClassNamed(construction.cls)
            given == construction.given
        IN  /\ ( \E f \in DOMAIN given \cap FieldNames(cls) :
                    /\ given[f] # Null
                    /\ TypeOk(cls.fields[f].type, given[f])
                    /\ ~WithinBounds(cls.fields[f], given[f]) )
               => ~construction.ok
            /\ Errors(cls, given) = {} => construction.ok

\* the fields of the Create schema that the Update schema lacks, and those it adds
C7_Dropped(update) ==
    CASE update = "UserUpdate" -> {"email", "password"}
      [] update = "PermitUpdate" -> {"student_id"}
      [] update = "SchoolClassUpdate" -> {"grade_level"}
      [] OTHER -> {}

C7_Added(update) ==
    CASE update = "UserUpdate" -> {"is_active"}
      [] update = "StudentUpdate" -> {"is_active"}
      [] update = "PermitUpdate" -> {"status", "approval_notes"}
      [] update = "SchoolClassUpdate" -> {"is_active"}
      [] update = "EmployeeUpdate" -> {"is_active"}
      [] OTHER -> {}

\* C7 (as stated): the fields of an Update schema are the fields of its Create
\* schema, each of them optional.
C7_UpdateHasTheFieldsOfCreate ==
    construction.done =>
        \A pair \in SchemaPairs :
            construction.cls = pair[2].name =>
                /\ FieldNames(pair[2]) = FieldNames(pair[1])
                /\ construction.ok => DOMAIN construction.obj = FieldNames(pair[1])
                /\ \A f \in FieldNames(pair[2]) : ~pair[2].fields[f].required

\* C7 (amended): every field of an Update schema is optional (Optional, default
\* None), so the empty update is accepted and sets nothing; the fields of the Update
\* schema are those of the Create schema for Alumni only: StudentUpdate and
\* EmployeeUpdate add is_active, UserUpdate drops email and password and adds
\* is_active, SchoolClassUpdate drops grade_level and adds is_active, PermitUpdate
\* drops student_id and adds status and approval_notes.
C7_UpdateFieldsOptional ==
    construction.done =>
        \A pair \in SchemaPairs :
            construction.cls = pair[2].name =>
                LET create == pair[1]
                    update == pair[2]
                IN  /\ \A f \in FieldNames(update) :
                          ~update.fields[f].required /\ update.fields[f].nullable
                                /\ update.fields[f].default = Null
                    /\ construction.given = <<>> =>
                          (construction.ok /\ \A f \in FieldNames(update) :
                                                 construction.obj[f] = Null)
                    /\ construction.ok => DOMAIN construction.obj = FieldNames(update)
                    /\ FieldNames(update) =
                          (FieldNames(create) \ C7_Dropped(update.name))
                              \cup C7_Added(update.name)
                    /\ C7_Dropped(update.name) \subseteq FieldNames(create)
                    /\ C7_Added(update.name) \cap FieldNames(create) = {}

\* C7 witness: UserUpdate() with no field given has been accepted
C7_EmptyUserUpdateAccepted ==
    /\ construction.done
    /\ construction.cls = "UserUpdate"
    /\ construction.given = <<>>
    /\ construction.ok

\* C10: an object a Create schema has accepted satisfies, in every field it shares
\* with its entity, the constraints the entity declares for the field.
C10_CreateAsStrictAsEntity ==
    (construction.done /\ construction.ok) =>
        \A pair \in SchemaPairs :
            construction.cls = pair[1].name =>
                \A f \in FieldNames(pair[1]) \cap FieldNames(pair[3]) :
                    FieldOk(pair[3].fields[f], construction.obj[f])

=============================================================================
